---- MODULE Spec2Model ----
(***************************************************************************)
(* A model of autoscribe.js: the documentation client (request, retry,     *)
(* cleanup, validation), the span extractor, the splicer, the file and     *)
(* directory walker and the CLI's configuration resolution.                *)
(*                                                                         *)
(* Text is a sequence of characters, each a string.  Offsets are the        *)
(* 0-based offsets of the source; offset p is element p + 1 of a sequence.  *)
(***************************************************************************)
EXTENDS Integers, Sequences, FiniteSets, TLC

\* ------------------------------------------------------------------ bounds

\* Longest raw model response drawn in the cleanup specification.
MaxRawLen == 5
\* Longest raw model response drawn in the retry-loop specification.
MaxRespLen == 3
\* Largest config.maxRetries drawn.
MaxRetriesBound == 3
\* Length of the source text handed to the extractor, and the most nodes its tree holds.
MaxCodeLen == 3
MaxNodes == 2
\* Largest config.maxRetries drawn where a whole file is processed.
MaxFileRetries == 2
\* Most command-line arguments drawn.
MaxArgs == 3

\* ------------------------------------------------------------------- text

NL == "\n"
\* The backtick character (a string of the module cannot hold the character itself).
Backtick == "backtick"
\* The characters raw responses are drawn from: the comment markers' characters,
\* the backtick, two white-space characters and two word characters.
Alphabet == {"/", "*", Backtick, " ", NL, "j", "s"}
WhiteSpace == {" ", NL}
WordChars == {"j", "s", "a", "v", "c", "r", "i", "p", "t"}

Fence == <<Backtick, Backtick, Backtick>>
BlockOpen == <<"/", "*", "*">>
BlockClose == <<"*", "/">>

RECURSIVE StringsOfLen(_)
StringsOfLen(n) ==
    IF n = 0 THEN {<<>>}
    ELSE {Append(s, c) : s \in StringsOfLen(n - 1), c \in Alphabet}

StringsUpTo(n) == UNION {StringsOfLen(k) : k \in 0..n}

\* pat occurs in s at offset p (0-based).
PrefixAt(s, p, pat) ==
    /\ p + Len(pat) <= Len(s)
    /\ \A k \in 1..Len(pat) : s[p + k] = pat[k]

StartsWith(s, pat) == PrefixAt(s, 0, pat)
EndsWith(s, pat) == Len(s) >= Len(pat) /\ PrefixAt(s, Len(s) - Len(pat), pat)

\* The text from offset p on.
From(s, p) == SubSeq(s, p + 1, Len(s))

\* The first offset >= p of s that holds no white space (Len(s) when none).
RECURSIVE SkipWhiteSpace(_, _)
SkipWhiteSpace(s, p) ==
    IF p < Len(s) /\ s[p + 1] \in WhiteSpace THEN SkipWhiteSpace(s, p + 1) ELSE p

\* The first offset >= p of s that holds no word character.
RECURSIVE SkipWord(_, _)
SkipWord(s, p) ==
    IF p < Len(s) /\ s[p + 1] \in WordChars THEN SkipWord(s, p + 1) ELSE p

AllWhiteSpace(s) == \A k \in 1..Len(s) : s[k] \in WhiteSpace

\* String.prototype.trim
RECURSIVE TrimEnd(_)
TrimEnd(s) ==
    IF Len(s) > 0 /\ s[Len(s)] \in WhiteSpace THEN TrimEnd(SubSeq(s, 1, Len(s) - 1)) ELSE s

Trim(s) == TrimEnd(From(s, SkipWhiteSpace(s, 0)))

\* ---------------------------------------------------------------- cleanup

\* First replace: every fenced block (fence, anything, fence), matched lazily, left to right.
RECURSIVE RemoveFencedFrom(_, _)
RemoveFencedFrom(s, p) ==
    IF p >= Len(s) THEN <<>>
    ELSE LET closers == {q \in (p + 3)..(Len(s) - 3) : PrefixAt(s, q, Fence)}
         IN IF PrefixAt(s, p, Fence) /\ closers # {}
            THEN LET q == CHOOSE c \in closers : \A d \in closers : c <= d
                 IN RemoveFencedFrom(s, q + 3)
            ELSE <<s[p + 1]>> \o RemoveFencedFrom(s, p + 1)

RemoveFenced(s) == RemoveFencedFrom(s, 0)

\* Second replace: a leftover fence, the word characters after it and one newline.
RECURSIVE RemoveFenceMarkersFrom(_, _)
RemoveFenceMarkersFrom(s, p) ==
    IF p >= Len(s) THEN <<>>
    ELSE IF PrefixAt(s, p, Fence)
         THEN LET w == SkipWord(s, p + 3)
                  q == IF w < Len(s) /\ s[w + 1] = NL THEN w + 1 ELSE w
              IN RemoveFenceMarkersFrom(s, q)
         ELSE <<s[p + 1]>> \o RemoveFenceMarkersFrom(s, p + 1)

RemoveFenceMarkers(s) == RemoveFenceMarkersFrom(s, 0)

\* Third replace: every backtick.
RemoveBackticks(s) == SelectSeq(s, LAMBDA c : c # Backtick)

\* Fourth replace: two block-open markers with only white space between become one.
RECURSIVE CollapseDoubleOpenFrom(_, _)
CollapseDoubleOpenFrom(s, p) ==
    IF p >= Len(s) THEN <<>>
    ELSE LET q == SkipWhiteSpace(s, p + 3)
         IN IF PrefixAt(s, p, BlockOpen) /\ PrefixAt(s, q, BlockOpen)
            THEN BlockOpen \o CollapseDoubleOpenFrom(s, q + 3)
            ELSE <<s[p + 1]>> \o CollapseDoubleOpenFrom(s, p + 1)

CollapseDoubleOpen(s) == CollapseDoubleOpenFrom(s, 0)

\* Fifth replace: a leading language name and the white space after it.
StripLanguageMarker(s) ==
    LET js == <<"j", "s">>
        javascript == <<"j", "a", "v", "a", "s", "c", "r", "i", "p", "t">>
    IN IF StartsWith(s, js) THEN From(s, SkipWhiteSpace(s, 2))
       ELSE IF StartsWith(s, javascript) THEN From(s, SkipWhiteSpace(s, 10))
       ELSE s

\* Sixth replace: the block-open marker is put first unless the text, after
\* leading white space, already starts with it.
EnsureStart(s) ==
    IF PrefixAt(s, SkipWhiteSpace(s, 0), BlockOpen) THEN s ELSE BlockOpen \o s

\* Seventh replace: the first offset not preceded by the close
\* marker from which only white space follows, replaced to the end by the marker.
EnsureEnd(s) ==
    LET hits == {p \in 0..Len(s) :
                    /\ ~(p >= 2 /\ PrefixAt(s, p - 2, BlockClose))
                    /\ AllWhiteSpace(From(s, p))}
    IN IF hits = {} THEN s
       ELSE LET p == CHOOSE h \in hits : \A g \in hits : h <= g
            IN SubSeq(s, 1, p) \o BlockClose

\* The cleanup chain applied to completion.choices[0].message.content.
Cleanup(raw) ==
    EnsureEnd(EnsureStart(StripLanguageMarker(CollapseDoubleOpen(
        RemoveBackticks(RemoveFenceMarkers(RemoveFenced(Trim(raw))))))))

validateDocumentation(documentation) ==
    /\ StartsWith(Trim(documentation), BlockOpen)
    /\ EndsWith(Trim(documentation), BlockClose)

\* ------------------------------------------------------------ retry loop

\* for (let i = 0; i < config.maxRetries; i++)
LoopContinues(i, maxRetries) == i < maxRetries

\* Mutants of IsLastAttempt: a failure is rethrown at once, never retried; and
\* the last attempt is taken to be the one after the loop's last.
IsLastAttemptNoRetry(i, maxRetries) == TRUE
IsLastAttemptOffByOne(i, maxRetries) == i = maxRetries

\* if (i === config.maxRetries - 1)
IsLastAttempt(i, maxRetries) == i = maxRetries - 1

NoError == [message |-> "none", attempts |-> 0, cause |-> "none"]
\* new Error('Failed to generate documentation after N attempts: ' + error.message)
AfterAttemptsError(maxRetries, cause) ==
    [message |-> "Failed to generate documentation after attempts", attempts |-> maxRetries,
     cause |-> cause]
\* new Error('Failed to generate documentation')
GenericError == [message |-> "Failed to generate documentation", attempts |-> 0, cause |-> "none"]

\* What one request can come to: a completion whose content is text, or an error
\* thrown inside the try block (the request rejected, or the completion held no
\* content to trim).
FailureCauses == {"request failed", "no content"}
Completion(text) == [ok |-> TRUE, text |-> text, cause |-> "none"]
Failure(cause) == [ok |-> FALSE, text |-> <<>>, cause |-> cause]

\* One iteration of the loop of generateDocumentation, at index i, on the
\* outcome of its request: the loop returns, throws, or goes on to i + 1 (after
\* the backoff, for a failure).
GenStep(i, maxRetries, outcome) ==
    IF outcome.ok
    THEN LET d == Cleanup(outcome.text)
         IN IF validateDocumentation(d)
            THEN [status |-> "returned", i |-> i, doc |-> d, error |-> NoError, wait |-> 0]
            ELSE [status |-> "running", i |-> i + 1, doc |-> <<>>, error |-> NoError, wait |-> 0]
    ELSE IF IsLastAttempt(i, maxRetries)
         THEN [status |-> "thrown", i |-> i, doc |-> <<>>,
               error |-> AfterAttemptsError(maxRetries, outcome.cause), wait |-> 0]
         ELSE [status |-> "running", i |-> i + 1, doc |-> <<>>, error |-> NoError,
               wait |-> 1000 * (i + 1)]

\* The values config.maxRetries takes: Number(process.env.MAX_RETRIES) || 3 is
\* any number but 0; a negative one is drawn beside the positive ones.
RetryValues == {-1} \cup 1..MaxRetriesBound

DefaultConfig ==
    [openaiApiKey |-> "", maxRetries |-> 3, model |-> "gpt-4o", outputFormat |-> "jsdoc",
     dryRun |-> FALSE]

\* -------------------------------------------------------------- extractor

\* code.slice(start, end)
Slice(code, start, end) == SubSeq(code, start + 1, end)

\* The node types the visitor has a handler for, and one it has none for.
NoId == "null"
NodeKinds ==
    {[type |-> "FunctionDeclaration", parentType |-> "Program", idName |-> "f"],
     \* export default function () {}: the declaration's id is null
     [type |-> "FunctionDeclaration", parentType |-> "ExportDefaultDeclaration", idName |-> NoId],
     [type |-> "ArrowFunctionExpression", parentType |-> "VariableDeclarator", idName |-> "g"],
     [type |-> "ArrowFunctionExpression", parentType |-> "CallExpression", idName |-> NoId],
     [type |-> "ClassMethod", parentType |-> "ClassBody", idName |-> "m"],
     [type |-> "ObjectMethod", parentType |-> "ObjectExpression", idName |-> "o"],
     [type |-> "Identifier", parentType |-> "ExpressionStatement", idName |-> "x"]}

Node(kind, start, end) ==
    [type |-> kind.type, parentType |-> kind.parentType, idName |-> kind.idName,
     start |-> start, end |-> end]

\* The nodes a text of length len can hold: each a non-empty range of the text.
NodesOf(len) ==
    {Node(kind, r[1], r[2]) : kind \in NodeKinds,
                              r \in {q \in (0..len) \X (0..len) : q[1] < q[2]}}

\* A later node of the traversal lies inside an earlier one, after its first
\* token, or wholly after it: the ranges of a syntax tree, in the order
\* traverse visits them (parents before children, siblings left to right).
FitsAfter(earlier, later) ==
    \/ earlier.start < later.start /\ later.end <= earlier.end
    \/ earlier.end <= later.start

RECURSIVE TreesOfSize(_, _)
TreesOfSize(len, n) ==
    IF n = 0 THEN {<<>>}
    ELSE UNION {{Append(t, nd) : nd \in {m \in NodesOf(len) :
                                            \A k \in 1..Len(t) : FitsAfter(t[k], m)}} :
                t \in TreesOfSize(len, n - 1)}

TreesUpTo(len, n) == UNION {TreesOfSize(len, k) : k \in 0..n}

\* What parse(code, ...) comes to: a tree (its nodes in traversal order) or a
\* SyntaxError.
Parsed(nodes) == [ok |-> TRUE, nodes |-> nodes]
SyntaxError == [ok |-> FALSE, nodes |-> <<>>]

\* Mutant of SpanOf: the end offset is taken one past the node's.
SpanOfEndInclusive(node, code) ==
    [name |-> node.idName, code |-> Slice(code, node.start, node.end),
     start |-> node.start, end |-> node.end + 1]

\* The object each handler pushes.
SpanOf(node, code) ==
    [name |-> node.idName, code |-> Slice(code, node.start, node.end),
     start |-> node.start, end |-> node.end]

\* The visitor on one node: what it pushes, or that it throws (path.node.id is
\* null, and its name is read).
Visit(node, code) ==
    CASE node.type = "FunctionDeclaration" ->
            IF node.idName = NoId
            THEN [threw |-> TRUE, pushed |-> <<>>]
            ELSE [threw |-> FALSE, pushed |-> <<SpanOf(node, code)>>]
      [] node.type = "ArrowFunctionExpression" ->
            IF node.parentType = "VariableDeclarator"
            THEN [threw |-> FALSE, pushed |-> <<SpanOf(node, code)>>]
            ELSE [threw |-> FALSE, pushed |-> <<>>]
      [] node.type \in {"ClassMethod", "ObjectMethod"} ->
            [threw |-> FALSE, pushed |-> <<SpanOf(node, code)>>]
      [] OTHER -> [threw |-> FALSE, pushed |-> <<>>]

\* extractFunctions as a whole: the functions collected from node k on, or that
\* the call throws ('Failed to parse code: ...').
RECURSIVE TraverseFrom(_, _, _, _)
TraverseFrom(nodes, k, code, acc) ==
    IF k > Len(nodes) THEN [threw |-> FALSE, functions |-> acc]
    ELSE LET v == Visit(nodes[k], code)
         IN IF v.threw THEN [threw |-> TRUE, functions |-> <<>>]
            ELSE TraverseFrom(nodes, k + 1, code, acc \o v.pushed)

extractFunctions(code, parsed) ==
    IF parsed.ok THEN TraverseFrom(parsed.nodes, 1, code, <<>>)
    ELSE [threw |-> TRUE, functions |-> <<>>]

TextChars == <<"a", "b", "c", "d", "e", "f", "g", "h">>
SourceText(len) == SubSeq(TextChars, 1, len)

\* ---------------------------------------------------------------- splicer

Min(a, b) == IF a <= b THEN a ELSE b

\* text.slice(0, pos) + ins + text.slice(pos)
InsertAt(text, pos, ins) ==
    SubSeq(text, 1, Min(pos, Len(text))) \o ins \o SubSeq(text, Min(pos, Len(text)) + 1, Len(text))

\* Mutant of NextOffset: the newline after the block is not counted.
NextOffsetNoNewline(offset, doc) == offset + Len(doc)

\* offset += func.documentation.length + 1
NextOffset(offset, doc) == offset + Len(doc) + 1

\* The loop over documentedFunctions, from its k-th element on.
RECURSIVE SpliceFrom(_, _, _, _)
SpliceFrom(updated, offset, documented, k) ==
    IF k > Len(documented) THEN updated
    ELSE LET func == documented[k]
             insertPosition == func.start + offset
         IN SpliceFrom(InsertAt(updated, insertPosition, func.documentation \o <<NL>>),
                       NextOffset(offset, func.documentation), documented, k + 1)

\* The updated code of processFile: the file-level block and two newlines put
\* first (when fileDoc is not the empty string), then the loop.
Splice(text, fileDocText, documented) ==
    IF fileDocText # <<>>
    THEN SpliceFrom(fileDocText \o <<NL, NL>> \o text, Len(fileDocText) + 2, documented, 1)
    ELSE SpliceFrom(text, 0, documented, 1)

\* { ...func, documentation: doc }
Documented(func, doc) ==
    [name |-> func.name, code |-> func.code, start |-> func.start, end |-> func.end,
     documentation |-> doc]

\* An element of the array Promise.all resolves to that is not yet there.
Pending == [name |-> "", code |-> <<>>, start |-> 0, end |-> 0, documentation |-> <<>>]

\* Mutant of ResultIndex: results are kept in the order the calls resolve.
ResultIndexByCompletion(k, done) == Len(done) + 1

\* Promise.all keeps the k-th promise's value at index k, whenever it resolves.
ResultIndex(k, done) == k

\* Mutant of PromiseAll: a rejected call is waited for and passed over.
PromiseAllSettled(ts) ==
    IF \A k \in 1..Len(ts) : ts[k].state \in {"resolved", "rejected"}
    THEN "fulfilled" ELSE "pending"

\* Promise.all: rejected once one promise is, fulfilled once all are.
PromiseAll(ts) ==
    IF \E k \in 1..Len(ts) : ts[k].state = "rejected" THEN "rejected"
    ELSE IF \A k \in 1..Len(ts) : ts[k].state = "resolved" THEN "fulfilled"
    ELSE "pending"

\* Mutant of WriteBack: the file is written in dry-run mode too.
WriteBackAlways(files, out, filePath, text, dryRun) ==
    [disk |-> [files EXCEPT ![filePath] = text],
     console |-> Append(out, [kind |-> "documented", path |-> filePath, text |-> <<>>])]

\* The end of processFile: the dry-run output, or fs.writeFile and the tick.
WriteBack(files, out, filePath, text, dryRun) ==
    IF dryRun
    THEN [disk |-> files,
          console |-> Append(out, [kind |-> "dry run", path |-> filePath, text |-> text])]
    ELSE [disk |-> [files EXCEPT ![filePath] = text],
          console |-> Append(out, [kind |-> "documented", path |-> filePath, text |-> <<>>])]

\* One step of a generateDocumentation call kept as a task: an iteration of its
\* loop on the outcome of its request, or the throw after the loop.
TaskStep(task, maxRetries, outcome) ==
    IF ~LoopContinues(task.i, maxRetries)
    THEN [task EXCEPT !.state = "rejected"]
    ELSE LET step == GenStep(task.i, maxRetries, outcome)
         IN [i |-> step.i,
             state |-> CASE step.status = "returned" -> "resolved"
                         [] step.status = "thrown" -> "rejected"
                         [] OTHER -> "running",
             documentation |-> step.doc]

NewTask == [i |-> 0, state |-> "running", documentation |-> <<>>]

\* ---------------------------------------------------------- sample sources

\* Source texts and what parse comes to on each.
SrcThree ==
    [code |-> <<"a", "b", "c", "d", "e", "f", "g">>,
     parsed |-> Parsed(<<
        Node([type |-> "FunctionDeclaration", parentType |-> "Program", idName |-> "f"], 0, 4),
        Node([type |-> "ArrowFunctionExpression", parentType |-> "VariableDeclarator",
              idName |-> "g"], 1, 3),
        Node([type |-> "Identifier", parentType |-> "ExpressionStatement", idName |-> "x"], 4, 5),
        Node([type |-> "ObjectMethod", parentType |-> "ObjectExpression", idName |-> "o"], 5, 7)>>)]
SrcTwo ==
    [code |-> <<"h", "i", "j", "k", "l">>,
     parsed |-> Parsed(<<
        Node([type |-> "ClassMethod", parentType |-> "ClassBody", idName |-> "m"], 0, 2),
        Node([type |-> "ArrowFunctionExpression", parentType |-> "CallExpression",
              idName |-> NoId], 2, 3),
        Node([type |-> "FunctionDeclaration", parentType |-> "Program", idName |-> "f"], 3, 5)>>)]
SrcNone ==
    [code |-> <<"x">>,
     parsed |-> Parsed(<<
        Node([type |-> "Identifier", parentType |-> "ExpressionStatement", idName |-> "x"], 0, 1)>>)]
SrcAnonymous ==
    [code |-> <<"e", "x">>,
     parsed |-> Parsed(<<
        Node([type |-> "FunctionDeclaration", parentType |-> "ExportDefaultDeclaration",
              idName |-> NoId], 0, 2)>>)]
SrcMalformed == [code |-> <<"(">>, parsed |-> SyntaxError]

Sources == {SrcThree, SrcTwo, SrcNone, SrcAnonymous, SrcMalformed}

\* parse on a sample text, and on a text processFile has written (which the
\* model never parses again): a SyntaxError stands for the latter.
ParseOf(text) ==
    IF \E src \in Sources : src.code = text
    THEN (CHOOSE src \in Sources : src.code = text).parsed
    ELSE SyntaxError

\* The most functions a sample source holds.
MaxFunctions == 3
\* The raw answers the model gives where a whole file is processed.
FileResponses == {<<>>, <<"s">>}

\* ------------------------------------------------------------ file system

\* The tree the walker is run on: src holds a.js, b.py, sub and z.tsx, and
\* src/sub holds c.ts.  A path is the sequence of its names.
Root == <<"src">>
SubDir == <<"src", "sub">>
Directories == {Root, SubDir}

\* fs.readdir
ReadDir(dirPath) ==
    CASE dirPath = Root -> <<"a.js", "b.py", "sub", "z.tsx">>
      [] dirPath = SubDir -> <<"c.ts">>
      [] OTHER -> <<>>

\* join(dirPath, file)
Join(dirPath, file) == Append(dirPath, file)

\* stat.isDirectory()
IsDirectory(p) == p \in Directories

\* What each name of the tree ends with, from its last dot on.
SuffixOf(file) ==
    CASE file = "a.js" -> ".js"
      [] file = "b.py" -> ".py"
      [] file = "c.ts" -> ".ts"
      [] file = "z.tsx" -> ".tsx"
      [] OTHER -> ""

\* config.supportedExtensions, by default
SupportedExtensions == {".js", ".jsx", ".ts", ".tsx"}

\* config.supportedExtensions.some(ext => file.endsWith(ext))
IsSupported(file) == \E ext \in SupportedExtensions : SuffixOf(file) = ext

SupportedFiles == {Join(Root, "a.js"), Join(SubDir, "c.ts"), Join(Root, "z.tsx")}
OtherFiles == {Join(Root, "b.py")}

\* What a generateDocumentation call comes to as a whole: it throws, or it
\* returns the cleaned text of what the model answered.
Thrown == [ok |-> FALSE, documentation |-> <<>>]
Returned(doc) == [ok |-> TRUE, documentation |-> doc]
GenResults == {Thrown} \cup {Returned(Cleanup(r)) : r \in FileResponses}

\* processFile as a whole, up to its write: it throws, or it comes to the
\* updated code.  fileGen is what the file-level call comes to and funcGens[k]
\* what the k-th function's call comes to.
processFile(text, fileGen, funcGens) ==
    LET got == extractFunctions(text, ParseOf(text))
        n == Len(got.functions)
    IN IF \/ ~fileGen.ok
          \/ got.threw
          \/ \E k \in 1..n : ~funcGens[k].ok
       THEN [ok |-> FALSE, updatedCode |-> <<>>]
       ELSE [ok |-> TRUE,
             updatedCode |->
                Splice(text, fileGen.documentation,
                       [k \in 1..n |-> Documented(got.functions[k], funcGens[k].documentation)])]

\* Mutant of AfterProcessFile: the walker passes over a file that failed.
AfterProcessFileSkip(ok) == "running"

\* await this.processFile(fullPath) in the loop of processDirectory: the loop
\* goes on, or the error leaves the loop.
AfterProcessFile(ok) == IF ok THEN "running" ELSE "failing"

Frame(dirPath) == [dirPath |-> dirPath, files |-> ReadDir(dirPath), index |-> 1]

\* -------------------------------------------------------------- CLI entry

\* undefined: an environment variable that is not set, an element past the end
\* of args.
Undefined == "undefined"

\* a || b on strings
Or(a, b) == IF a = Undefined \/ a = "" THEN b ELSE a

\* The config object as the module builds it from process.env.  MAX_RETRIES is
\* left unset there.
ConfigFromEnv(e) ==
    [openaiApiKey |-> Or(e.OPENAI_API_KEY, ""),
     maxRetries |-> 3,
     model |-> Or(e.OPENAI_MODEL, "gpt-4o"),
     outputFormat |-> Or(e.OUTPUT_FORMAT, "jsdoc"),
     dryRun |-> (e.DRY_RUN = "true")]

ArgTokens == {"./src", "value", "--dry-run", "--api-key", "--model", "--format", "--recursive"}
Flags == {"--dry-run", "--api-key", "--model", "--format", "--recursive"}

RECURSIVE ArgsOfLen(_)
ArgsOfLen(n) ==
    IF n = 0 THEN {<<>>}
    ELSE {Append(a, t) : a \in ArgsOfLen(n - 1), t \in ArgTokens}

\* arg.startsWith('--')
StartsWithDashes(arg) == arg \in Flags

\* args.includes(flag)
Includes(a, flag) == \E k \in 1..Len(a) : a[k] = flag

\* args[args.indexOf(flag) + 1]
ArgAfter(a, flag) ==
    LET k == CHOOSE j \in 1..Len(a) : a[j] = flag /\ \A l \in 1..(j - 1) : a[l] # flag
    IN IF k + 1 <= Len(a) THEN a[k + 1] ELSE Undefined

\* args.find(arg => !arg.startsWith('--'))
FirstNonOption(a) ==
    IF \E k \in 1..Len(a) : ~StartsWithDashes(a[k])
    THEN a[CHOOSE j \in 1..Len(a) :
                /\ ~StartsWithDashes(a[j])
                /\ \A l \in 1..(j - 1) : StartsWithDashes(a[l])]
    ELSE Undefined

\* The options object of main.
ParseOptions(a, cfg) ==
    [targetPath |-> FirstNonOption(a),
     apiKey |-> IF Includes(a, "--api-key") THEN ArgAfter(a, "--api-key") ELSE cfg.openaiApiKey,
     recursive |-> Includes(a, "--recursive"),
     model |-> IF Includes(a, "--model") THEN ArgAfter(a, "--model") ELSE cfg.model,
     format |-> IF Includes(a, "--format") THEN ArgAfter(a, "--format") ELSE cfg.outputFormat,
     dryRun |-> Includes(a, "--dry-run")]

NoOptions ==
    [targetPath |-> Undefined, apiKey |-> Undefined, recursive |-> FALSE, model |-> Undefined,
     format |-> Undefined, dryRun |-> FALSE]

\* Object.assign(config, { openaiApiKey, model, outputFormat, dryRun })
AssignOptions(cfg, opts) ==
    [cfg EXCEPT !.openaiApiKey = opts.apiKey, !.model = opts.model,
                !.outputFormat = opts.format, !.dryRun = opts.dryRun]

\* ------------------------------------------------------------------ state

VARIABLES
    config,         \* the module's config object
    raw,            \* cleanup: completion.choices[0].message.content
    documentation,  \* cleanup: the cleaned text
    cleanState,     \* cleanup: "raw", "returned" (validated) or "rejected"
    i,              \* generateDocumentation: the loop index
    outcomes,       \* generateDocumentation: the outcome of each request issued
    genState,       \* generateDocumentation: "running", "returned" or "thrown"
    genResult,      \* generateDocumentation: the text returned
    genError,       \* generateDocumentation: the error thrown
    slept,          \* generateDocumentation: milliseconds of backoff waited
    code,           \* the source text read or handed over
    ast,            \* what parse comes to on code
    visited,        \* extractFunctions: the nodes the traversal has visited
    functions,      \* extractFunctions: the array the handlers push to
    extractState,   \* extractFunctions: "start", "traversing", "returned" or "thrown"
    pc,             \* processFile: where the call stands
    path,           \* processFile: filePath
    fileTask,       \* processFile: the file-level generateDocumentation call
    tasks,          \* processFile: the generateDocumentation call of each function
    completed,      \* processFile: the functions' calls in the order they resolved
    documentedFunctions, \* processFile: what Promise.all resolves to
    updatedCode,    \* processFile: the text after splicing
    oracle,         \* the text the model answers for the file (0) and each function
    disk,           \* the content of each file on disk
    disk0,          \* the content of each file when the run started
    console,        \* what console.log has printed
    stack,          \* processDirectory: the calls in progress, innermost last
    dirState,       \* the run: "start", "running", "failing", "done" or "exited"
    processed,      \* the run: the processFile calls made, each with its outcome
    target,         \* main: options.targetPath
    recursive,      \* main: options.recursive
    env,            \* process.env
    args,           \* process.argv.slice(2)
    options,        \* main: the options parsed from args
    openai,         \* the documenter's client: the API key it was built with
    mainState       \* main: "start", "loaded", "processing" or "exited"

cleanVars == <<raw, documentation, cleanState>>
genVars == <<i, outcomes, genState, genResult, genError, slept>>
extractVars == <<code, ast, visited, functions, extractState>>
fileVars == <<pc, path, fileTask, tasks, completed, documentedFunctions, updatedCode, oracle>>
ioVars == <<disk, disk0, console>>
dirVars == <<stack, dirState, processed, target, recursive>>
mainVars == <<env, args, options, openai, mainState>>
vars == <<config, cleanVars, genVars, extractVars, fileVars, ioVars, dirVars, mainVars>>

\* Every variable but those of one part of the program.
exceptClean == <<genVars, extractVars, fileVars, ioVars, dirVars, mainVars>>
exceptGen == <<cleanVars, extractVars, fileVars, ioVars, dirVars, mainVars>>
exceptExtract == <<cleanVars, genVars, fileVars, ioVars, dirVars, mainVars>>
exceptFile == <<cleanVars, genVars, ast, visited, extractState, dirVars, mainVars>>
exceptDir == <<cleanVars, genVars, extractVars, fileVars, mainVars>>
exceptMain == <<cleanVars, genVars, extractVars, fileVars, ioVars, dirVars>>

CleanIdle == raw = <<>> /\ documentation = <<>> /\ cleanState = "idle"
GenIdle ==
    /\ i = 0 /\ outcomes = <<>> /\ genState = "idle"
    /\ genResult = <<>> /\ genError = NoError /\ slept = 0
ExtractIdle ==
    /\ code = <<>> /\ ast = SyntaxError /\ visited = 0
    /\ functions = <<>> /\ extractState = "idle"
NoTask == [i |-> 0, state |-> "idle", documentation |-> <<>>]
FileIdle ==
    /\ pc = "idle" /\ path = <<>> /\ fileTask = NoTask /\ tasks = <<>>
    /\ completed = <<>> /\ documentedFunctions = <<>> /\ updatedCode = <<>>
    /\ oracle = <<>>
IoIdle == disk = <<>> /\ disk0 = <<>> /\ console = <<>>
DirIdle ==
    /\ stack = <<>> /\ dirState = "idle" /\ processed = <<>>
    /\ target = <<>> /\ recursive = FALSE
MainIdle ==
    env = <<>> /\ args = <<>> /\ options = <<>> /\ openai = "" /\ mainState = "idle"

\* ------------------------------------------- specification: the cleanup chain

CleanInit ==
    /\ config = DefaultConfig
    /\ raw \in StringsUpTo(MaxRawLen)
    /\ documentation = <<>>
    /\ cleanState = "raw"
    /\ GenIdle /\ ExtractIdle /\ FileIdle /\ IoIdle /\ DirIdle /\ MainIdle

\* generateDocumentation, from the completion to the return or the retry.
CleanResponse ==
    /\ cleanState = "raw"
    /\ documentation' = Cleanup(raw)
    /\ cleanState' = IF validateDocumentation(Cleanup(raw)) THEN "returned" ELSE "rejected"
    /\ UNCHANGED <<config, raw, exceptClean>>

CleanNext == CleanResponse

SpecClean == CleanInit /\ [][CleanNext]_vars

\* --------------------------------------------- specification: the retry loop

Responses == StringsUpTo(MaxRespLen)
RequestOutcomes == {Completion(t) : t \in Responses} \cup {Failure(c) : c \in FailureCauses}

GenInit ==
    /\ config \in {[DefaultConfig EXCEPT !.maxRetries = n] : n \in RetryValues}
    /\ i = 0 /\ outcomes = <<>> /\ genState = "running"
    /\ genResult = <<>> /\ genError = NoError /\ slept = 0
    /\ CleanIdle /\ ExtractIdle /\ FileIdle /\ IoIdle /\ DirIdle /\ MainIdle

\* One iteration: the request, then the cleanup and validation or the catch block.
GenAttempt ==
    /\ genState = "running"
    /\ LoopContinues(i, config.maxRetries)
    /\ \E outcome \in RequestOutcomes :
        LET step == GenStep(i, config.maxRetries, outcome)
        IN /\ outcomes' = Append(outcomes, outcome)
           /\ i' = step.i
           /\ genState' = step.status
           /\ genResult' = step.doc
           /\ genError' = step.error
           /\ slept' = slept + step.wait
    /\ UNCHANGED <<config, exceptGen>>

\* The loop ends without a return: throw new Error('Failed to generate documentation').
GenGiveUp ==
    /\ genState = "running"
    /\ ~LoopContinues(i, config.maxRetries)
    /\ genState' = "thrown"
    /\ genError' = GenericError
    /\ UNCHANGED <<config, exceptGen, i, outcomes, genResult, slept>>

GenNext == GenAttempt \/ GenGiveUp

SpecGen == GenInit /\ [][GenNext]_vars

\* ---------------------------------------------- specification: the extractor

ExtractInit ==
    /\ config = DefaultConfig
    /\ code = SourceText(MaxCodeLen)
    /\ ast \in {Parsed(t) : t \in TreesUpTo(MaxCodeLen, MaxNodes)} \cup {SyntaxError}
    /\ visited = 0
    /\ functions = <<>>
    /\ extractState = "start"
    /\ CleanIdle /\ GenIdle /\ FileIdle /\ IoIdle /\ DirIdle /\ MainIdle

\* parse(code, ...): the tree, or the catch block on a SyntaxError.
ExtractParse ==
    /\ extractState = "start"
    /\ extractState' = IF ast.ok THEN "traversing" ELSE "thrown"
    /\ UNCHANGED <<config, exceptExtract, code, ast, visited, functions>>

\* traverse reaches the next node and runs its handler, if it has one.
ExtractVisit ==
    /\ extractState = "traversing"
    /\ visited < Len(ast.nodes)
    /\ LET v == Visit(ast.nodes[visited + 1], code)
       IN IF v.threw
          THEN /\ extractState' = "thrown"
               /\ UNCHANGED <<visited, functions>>
          ELSE /\ visited' = visited + 1
               /\ functions' = functions \o v.pushed
               /\ UNCHANGED extractState
    /\ UNCHANGED <<config, exceptExtract, code, ast>>

\* return functions
ExtractReturn ==
    /\ extractState = "traversing"
    /\ visited = Len(ast.nodes)
    /\ extractState' = "returned"
    /\ UNCHANGED <<config, exceptExtract, code, ast, visited, functions>>

ExtractNext == ExtractParse \/ ExtractVisit \/ ExtractReturn

SpecExtract == ExtractInit /\ [][ExtractNext]_vars

\* --------------------------------------------- specification: processFile

FilePath == <<"src", "a.js">>

FileInit ==
    /\ config \in {[DefaultConfig EXCEPT !.maxRetries = n, !.dryRun = d] :
                      n \in 1..MaxFileRetries, d \in BOOLEAN}
    /\ path = FilePath
    /\ \E src \in Sources : disk = [f \in {FilePath} |-> src.code]
    /\ disk0 = disk
    /\ console = <<>>
    /\ oracle \in [0..MaxFunctions -> FileResponses]
    /\ pc = "read"
    /\ code = <<>> /\ functions = <<>>
    /\ fileTask = NoTask /\ tasks = <<>> /\ completed = <<>>
    /\ documentedFunctions = <<>> /\ updatedCode = <<>>
    /\ ast = SyntaxError /\ visited = 0 /\ extractState = "idle"
    /\ CleanIdle /\ GenIdle /\ DirIdle /\ MainIdle

\* What the k-th call's request comes to: it fails, or the model answers.
FileOutcomes(k) == {Failure("request failed"), Completion(oracle[k])}

\* const code = await fs.readFile(filePath, 'utf8'), and the file-level call starts.
ReadFile ==
    /\ pc = "read"
    /\ code' = disk[path]
    /\ fileTask' = NewTask
    /\ pc' = "fileDoc"
    /\ UNCHANGED <<config, exceptFile, ioVars, functions, path, tasks, completed,
                   documentedFunctions, updatedCode, oracle>>

\* One iteration of generateDocumentation(code, 'file'); its throw is caught and
\* rethrown by processFile.
FileDocAttempt ==
    /\ pc = "fileDoc"
    /\ \E outcome \in FileOutcomes(0) :
        LET next == TaskStep(fileTask, config.maxRetries, outcome)
        IN /\ fileTask' = next
           /\ pc' = CASE next.state = "resolved" -> "extract"
                      [] next.state = "rejected" -> "failed"
                      [] OTHER -> "fileDoc"
    /\ UNCHANGED <<config, exceptFile, ioVars, code, functions, path, tasks, completed,
                   documentedFunctions, updatedCode, oracle>>

\* extractFunctions(code), then functions.map starts one call per function.
ExtractAndMap ==
    /\ pc = "extract"
    /\ LET got == extractFunctions(code, ParseOf(code))
       IN IF got.threw
          THEN /\ pc' = "failed"
               /\ UNCHANGED <<functions, tasks, documentedFunctions>>
          ELSE /\ pc' = "gather"
               /\ functions' = got.functions
               /\ tasks' = [k \in 1..Len(got.functions) |-> NewTask]
               /\ documentedFunctions' = [k \in 1..Len(got.functions) |-> Pending]
    /\ UNCHANGED <<config, exceptFile, ioVars, code, path, fileTask, completed,
                   updatedCode, oracle>>

\* One iteration of the k-th function's generateDocumentation call; when it
\* returns, Promise.all keeps the documented function.
TaskAttempt(k) ==
    /\ pc = "gather"
    /\ tasks[k].state = "running"
    /\ \E outcome \in FileOutcomes(k) :
        LET next == TaskStep(tasks[k], config.maxRetries, outcome)
        IN /\ tasks' = [tasks EXCEPT ![k] = next]
           /\ IF next.state = "resolved"
              THEN /\ documentedFunctions' =
                        [documentedFunctions EXCEPT ![ResultIndex(k, completed)] =
                            Documented(functions[k], next.documentation)]
                   /\ completed' = Append(completed, k)
              ELSE UNCHANGED <<documentedFunctions, completed>>
    /\ UNCHANGED <<config, exceptFile, ioVars, code, functions, path, fileTask,
                   updatedCode, oracle, pc>>

\* await Promise.all(...) settles: on a rejection processFile rethrows; else it
\* splices and writes the file or prints the dry-run output.
AwaitAll ==
    /\ pc = "gather"
    /\ PromiseAll(tasks) # "pending"
    /\ IF PromiseAll(tasks) = "rejected"
       THEN /\ pc' = "failed"
            /\ UNCHANGED <<updatedCode, ioVars>>
       ELSE LET text == Splice(code, fileTask.documentation, documentedFunctions)
                out == WriteBack(disk, console, path, text, config.dryRun)
            IN /\ updatedCode' = text
               /\ disk' = out.disk
               /\ console' = out.console
               /\ pc' = "done"
               /\ UNCHANGED disk0
    /\ UNCHANGED <<config, exceptFile, code, functions, path, fileTask, tasks, completed,
                   documentedFunctions, oracle>>

FileNext ==
    \/ ReadFile
    \/ FileDocAttempt
    \/ ExtractAndMap
    \/ \E k \in 1..MaxFunctions : k <= Len(tasks) /\ TaskAttempt(k)
    \/ AwaitAll

SpecFile == FileInit /\ [][FileNext]_vars

\* ----------------------------------------- specification: the directory walk

DirInit ==
    /\ config \in {[DefaultConfig EXCEPT !.dryRun = d] : d \in BOOLEAN}
    /\ target \in {Root, Join(Root, "a.js")}
    /\ recursive \in BOOLEAN
    /\ disk \in {f \in [SupportedFiles \cup OtherFiles ->
                          {SrcTwo.code, SrcNone.code, SrcMalformed.code, <<"p", "y">>}] :
                    /\ \A q \in OtherFiles : f[q] = <<"p", "y">>
                    /\ \A q \in SupportedFiles : f[q] # <<"p", "y">>}
    /\ disk0 = disk
    /\ console = <<>>
    /\ stack = <<>>
    /\ dirState = "start"
    /\ processed = <<>>
    /\ CleanIdle /\ GenIdle /\ ExtractIdle /\ FileIdle /\ MainIdle

\* One call of processFile, from its read to its write or its throw.
ProcessFileCall(filePath, ok) ==
    \E fileGen \in GenResults, funcGens \in [1..MaxFunctions -> GenResults] :
        LET res == processFile(disk[filePath], fileGen, funcGens)
            out == WriteBack(disk, console, filePath, res.updatedCode, config.dryRun)
        IN /\ res.ok = ok
           /\ processed' = Append(processed, [path |-> filePath, ok |-> ok])
           /\ IF ok
              THEN disk' = out.disk /\ console' = out.console
              ELSE UNCHANGED <<disk, console>>

\* main, from fs.stat(options.targetPath) to the call it makes or the exit.
Dispatch ==
    /\ dirState = "start"
    /\ IF ~IsDirectory(target) THEN dirState' = "file" /\ UNCHANGED stack
       ELSE IF recursive THEN dirState' = "running" /\ stack' = <<Frame(target)>>
       ELSE dirState' = "exited" /\ UNCHANGED stack
    /\ UNCHANGED <<config, exceptDir, ioVars, processed, target, recursive>>

\* main: await documenter.processFile(options.targetPath), and the catch block.
ProcessTarget ==
    /\ dirState = "file"
    /\ \E ok \in BOOLEAN :
        /\ ProcessFileCall(target, ok)
        /\ dirState' = IF ok THEN "done" ELSE "exited"
    /\ UNCHANGED <<config, exceptDir, disk0, stack, target, recursive>>

\* One turn of the loop of the innermost processDirectory call.
DirEntry ==
    /\ dirState = "running"
    /\ LET top == stack[Len(stack)]
           file == top.files[top.index]
           fullPath == Join(top.dirPath, file)
           advanced == [stack EXCEPT ![Len(stack)].index = top.index + 1]
       IN /\ top.index <= Len(top.files)
          /\ IF IsDirectory(fullPath)
             THEN /\ stack' = Append(stack, Frame(fullPath))
                  /\ UNCHANGED <<dirState, processed, disk, console>>
             ELSE IF IsSupported(file)
             THEN \E ok \in BOOLEAN :
                     /\ ProcessFileCall(fullPath, ok)
                     /\ dirState' = AfterProcessFile(ok)
                     /\ stack' = IF AfterProcessFile(ok) = "running" THEN advanced ELSE stack
             ELSE /\ stack' = advanced
                  /\ UNCHANGED <<dirState, processed, disk, console>>
    /\ UNCHANGED <<config, exceptDir, disk0, target, recursive>>

\* The loop of the innermost call is over: it returns to the call that awaits
\* it, or to main.
DirReturn ==
    /\ dirState = "running"
    /\ LET top == stack[Len(stack)]
           rest == SubSeq(stack, 1, Len(stack) - 1)
       IN /\ top.index > Len(top.files)
          /\ IF rest = <<>>
             THEN stack' = rest /\ dirState' = "done"
             ELSE /\ stack' = [rest EXCEPT ![Len(rest)].index = rest[Len(rest)].index + 1]
                  /\ UNCHANGED dirState
    /\ UNCHANGED <<config, exceptDir, ioVars, processed, target, recursive>>

\* The catch block of the innermost call rethrows; main's catch block exits.
DirRethrow ==
    /\ dirState = "failing"
    /\ stack' = SubSeq(stack, 1, Len(stack) - 1)
    /\ dirState' = IF Len(stack) = 1 THEN "exited" ELSE "failing"
    /\ UNCHANGED <<config, exceptDir, ioVars, processed, target, recursive>>

DirNext == Dispatch \/ ProcessTarget \/ DirEntry \/ DirReturn \/ DirRethrow

SpecDir == DirInit /\ [][DirNext]_vars

\* ------------------------------------------------ specification: the CLI

MainInit ==
    /\ env \in [OPENAI_API_KEY : {Undefined, "env-key"},
                OPENAI_MODEL : {Undefined, "env-model"},
                OUTPUT_FORMAT : {Undefined, "tsdoc"},
                DRY_RUN : {Undefined, "true", "false"}]
    /\ args \in UNION {ArgsOfLen(n) : n \in 0..MaxArgs}
    /\ config = DefaultConfig
    /\ options = NoOptions
    /\ openai = ""
    /\ mainState = "start"
    /\ CleanIdle /\ GenIdle /\ ExtractIdle /\ FileIdle /\ IoIdle /\ DirIdle

\* The module is loaded: dotenv.config() and the config object.
LoadConfig ==
    /\ mainState = "start"
    /\ config' = ConfigFromEnv(env)
    /\ mainState' = "loaded"
    /\ UNCHANGED <<exceptMain, env, args, options, openai>>

\* main, up to the documenter: the options, the two usage exits,
\* Object.assign and new CodeDocumenter(options.apiKey).
Main ==
    /\ mainState = "loaded"
    /\ LET opts == ParseOptions(args, config)
       IN IF FirstNonOption(args) = Undefined
          THEN /\ mainState' = "exited"
               /\ UNCHANGED <<config, options, openai>>
          ELSE IF opts.apiKey = Undefined \/ opts.apiKey = ""
          THEN /\ mainState' = "exited"
               /\ options' = opts
               /\ UNCHANGED <<config, openai>>
          ELSE /\ options' = opts
               /\ config' = AssignOptions(config, opts)
               /\ openai' = Or(opts.apiKey, AssignOptions(config, opts).openaiApiKey)
               /\ mainState' = "processing"
    /\ UNCHANGED <<exceptMain, env, args>>

MainNext == LoadConfig \/ Main

SpecMain == MainInit /\ [][MainNext]_vars

\* ------------------------------------------------------------------ claims

\* C10: every text generateDocumentation returns begins with the block-open
\* marker as its first characters, ends with the block-close marker as its last
\* characters and holds no backtick.
C10_ReturnedTextIsBlock ==
    cleanState = "returned" =>
        /\ StartsWith(documentation, BlockOpen)
        /\ EndsWith(documentation, BlockClose)
        /\ \A k \in 1..Len(documentation) : documentation[k] # Backtick

\* C2: with maxRetries = n >= 1, at most n requests are issued; a call that
\* returns has issued exactly k requests, the first k - 1 failed and the k-th
\* completed, and it returns the k-th completion's cleaned text; a request that
\* completes is the last one issued; a call that throws has issued exactly n
\* requests and all of them failed.
C2_RetryLoop ==
    config.maxRetries >= 1 =>
        /\ Len(outcomes) <= config.maxRetries
        /\ \A k \in 1..Len(outcomes) :
              outcomes[k].ok => (k = Len(outcomes) /\ genState = "returned")
        /\ genState = "returned" =>
              /\ Len(outcomes) >= 1
              /\ outcomes[Len(outcomes)].ok
              /\ genResult = Cleanup(outcomes[Len(outcomes)].text)
        /\ genState = "thrown" =>
              /\ Len(outcomes) = config.maxRetries
              /\ \A k \in 1..Len(outcomes) : ~outcomes[k].ok
        /\ genState = "running" => Len(outcomes) = i

\* Two requests failed and the third completed: the call returned after three.
C2_Witness ==
    /\ genState = "returned"
    /\ Len(outcomes) = 3
    /\ ~outcomes[1].ok /\ ~outcomes[2].ok /\ outcomes[3].ok

\* C9: with maxRetries >= 1, when generateDocumentation gives up, the error it
\* throws names the number of attempts and the cause of the last failure.
C9_GiveUpError ==
    (genState = "thrown" /\ config.maxRetries >= 1) =>
        /\ genError.message = "Failed to generate documentation after attempts"
        /\ genError.attempts = config.maxRetries
        /\ genError.attempts = Len(outcomes)
        /\ genError.cause = outcomes[Len(outcomes)].cause
        /\ genError.cause \in FailureCauses

\* Both of two attempts failed and the call gave up.
C9_Witness ==
    /\ genState = "thrown"
    /\ config.maxRetries = 2
    /\ Len(outcomes) = 2
    /\ outcomes[1].cause # outcomes[2].cause

SpanInText(f) == 0 <= f.start /\ f.start <= f.end /\ f.end <= Len(code)
Disjoint(f, g) == f.end <= g.start \/ g.end <= f.start
Inside(f, g) == g.start <= f.start /\ f.end <= g.end

\* C7 as stated: every returned span lies in the text, and any two returned
\* spans are disjoint.
C7_SpansDisjoint ==
    extractState = "returned" =>
        /\ \A k \in 1..Len(functions) : SpanInText(functions[k])
        /\ \A k, l \in 1..Len(functions) :
              k # l => Disjoint(functions[k], functions[l])

\* C7 as amended: every returned span lies in the text, and any two returned
\* spans are disjoint or one lies inside the other.
C7_SpansNestedOrDisjoint ==
    extractState = "returned" =>
        /\ \A k \in 1..Len(functions) : SpanInText(functions[k])
        /\ \A k, l \in 1..Len(functions) :
              k # l =>
                \/ Disjoint(functions[k], functions[l])
                \/ Inside(functions[l], functions[k])
                \/ Inside(functions[k], functions[l])

\* Two spans were returned, the second inside the first.
C7_Witness ==
    /\ extractState = "returned"
    /\ Len(functions) = 2
    /\ Inside(functions[2], functions[1])
    /\ ~Disjoint(functions[1], functions[2])

\* The sum of (length + 1) over the first n documented functions' blocks.
RECURSIVE ShiftOf(_)
ShiftOf(n) ==
    IF n = 0 THEN 0
    ELSE ShiftOf(n - 1) + Len(documentedFunctions[n].documentation) + 1

\* C1: in the final text, the block of the k-th span (spans in ascending order
\* of start) begins exactly at the span's original start plus the file-level
\* block's length plus 2 plus the sum of (length + 1) of the blocks before it.
C1_BlockPositions ==
    pc = "done" =>
        \A k \in 1..Len(functions) :
            PrefixAt(updatedCode,
                     functions[k].start + Len(fileTask.documentation) + 2 + ShiftOf(k - 1),
                     documentedFunctions[k].documentation)

\* Three blocks were spliced, not all of one length.
C1_Witness ==
    /\ pc = "done"
    /\ Len(functions) = 3
    /\ Len(documentedFunctions[1].documentation) # Len(documentedFunctions[2].documentation)
    /\ Len(fileTask.documentation) # Len(documentedFunctions[1].documentation)

\* C5: the file on disk differs from what it was only when processFile is done
\* and the file-level call, the extraction and every function's call succeeded;
\* after a failure the file is what it was.
C5_WrittenOnlyAfterAllGenerated ==
    /\ disk # disk0 =>
          /\ pc = "done"
          /\ fileTask.state = "resolved"
          /\ ~extractFunctions(code, ParseOf(code)).threw
          /\ \A k \in 1..Len(tasks) : tasks[k].state = "resolved"
    /\ pc = "failed" => disk = disk0

\* Not a dry run: one function's call had returned when another's gave up, and
\* processFile failed.
C5_Witness ==
    /\ pc = "failed"
    /\ ~config.dryRun
    /\ \E k \in 1..Len(tasks) : tasks[k].state = "resolved"
    /\ \E k \in 1..Len(tasks) : tasks[k].state = "rejected"

\* The blocks of the spans that start at offset p, from the k-th span on, each
\* followed by a newline, in span order.
RECURSIVE BlocksAt(_, _, _)
BlocksAt(p, spans, k) ==
    IF k > Len(spans) THEN <<>>
    ELSE (IF spans[k].start = p THEN Cleanup(oracle[k]) \o <<NL>> ELSE <<>>)
         \o BlocksAt(p, spans, k + 1)

\* The text from offset p on with every span's block put right before the span.
RECURSIVE Weave(_, _, _)
Weave(text, p, spans) ==
    IF p >= Len(text) THEN <<>>
    ELSE BlocksAt(p, spans, 1) \o <<text[p + 1]>> \o Weave(text, p + 1, spans)

\* C8: whatever the order in which the functions' calls complete, the final text
\* is the file-level block, two newlines, and the original text with, right
\* before each span, the block the model answered for that span, and the
\* documented functions stand in the extractor's order.
C8_OrderIndependent ==
    pc = "done" =>
        /\ updatedCode = Cleanup(oracle[0]) \o <<NL, NL>> \o Weave(code, 0, functions)
        /\ \A k \in 1..Len(functions) :
              /\ documentedFunctions[k].start = functions[k].start
              /\ documentedFunctions[k].documentation = Cleanup(oracle[k])

\* The third function's call completed first and the first one's last, and the
\* model's answers for them differ.
C8_Witness ==
    /\ pc = "done"
    /\ completed = <<3, 2, 1>>
    /\ oracle[1] # oracle[3]

Succeeded == {k \in 1..Len(processed) : processed[k].ok}
SomeFileFailed == \E k \in 1..Len(processed) : ~processed[k].ok

\* C3: in dry-run mode every file on disk is what it was when the run started,
\* and the run prints one dry-run output for each file it processed, each
\* holding the would-be text, and nothing else.
C3_DryRunWritesNothing ==
    config.dryRun =>
        /\ disk = disk0
        /\ Len(console) = Cardinality(Succeeded)
        /\ \A k \in 1..Len(console) :
              /\ console[k].kind = "dry run"
              /\ console[k].text # disk[console[k].path]
              /\ StartsWith(Trim(console[k].text), BlockOpen)

\* A dry run of the whole tree ended with three outputs printed.
C3_Witness ==
    /\ config.dryRun
    /\ dirState = "done"
    /\ Len(console) = 3
    /\ disk = disk0

\* C6: once a processFile call of the run has failed, no file is read,
\* processed or written any more, the run never goes on, and the files written
\* before keep their content; the failing call itself writes nothing.
C6_FailureStopsRun ==
    [][/\ SomeFileFailed =>
            /\ disk' = disk
            /\ processed' = processed
            /\ dirState' \in {"failing", "exited"}
       /\ (~SomeFileFailed /\ SomeFileFailed') =>
            /\ disk' = disk
            /\ dirState' \in {"failing", "exited"}]_vars

\* The run exited on a failure in src/sub/c.ts: a.js, written before, keeps its
\* new content and z.tsx, which comes later, was never processed.
C6_Witness ==
    /\ dirState = "exited"
    /\ Len(processed) = 2
    /\ processed[1].ok /\ ~processed[2].ok
    /\ processed[2].path = Join(SubDir, "c.ts")
    /\ disk[Join(Root, "a.js")] # disk0[Join(Root, "a.js")]
    /\ disk[Join(Root, "z.tsx")] = disk0[Join(Root, "z.tsx")]

\* The value a setting is to have: the flag's when the flag is given, else the
\* environment variable's (the default when the variable is not set).
Resolved(flag, envValue, default) ==
    IF Includes(args, flag) THEN ArgAfter(args, flag) ELSE Or(envValue, default)

\* C4: while files are processed, the API key, the model, the output format and
\* dry-run each have the CLI flag's value when the flag is given and the
\* environment variable's value when it is not.
C4_FlagsOverrideEnv ==
    mainState = "processing" =>
        /\ config.openaiApiKey = Resolved("--api-key", env.OPENAI_API_KEY, "")
        /\ openai = Resolved("--api-key", env.OPENAI_API_KEY, "")
        /\ config.model = Resolved("--model", env.OPENAI_MODEL, "gpt-4o")
        /\ config.outputFormat = Resolved("--format", env.OUTPUT_FORMAT, "jsdoc")
        /\ config.dryRun = IF Includes(args, "--dry-run") THEN TRUE ELSE env.DRY_RUN = "true"

====
